---------------------------- MODULE Spec2Model ----------------------------
(***************************************************************************)
(* FinSight audio pipeline.                                                *)
(*                                                                         *)
(*  - app/audio-event-handler/app.py: the Flask handler that filters S3    *)
(*    notifications and triggers a Kubeflow pipeline run, resolving the    *)
(*    experiment and pipeline ids through two process-wide cache slots.    *)
(*  - pipeline/audio-to-transcript/components/transcription.py: the        *)
(*    batch transcription engine (retry loop, stub mode).                  *)
(*                                                                         *)
(* Text is modelled as a sequence of one-character strings so that         *)
(* unquote(), lower(), startswith() and endswith() are computed.           *)
(* Identifiers handed out by the orchestration API are positive naturals;  *)
(* 0 stands for Python's None in an id slot.                               *)
(***************************************************************************)
EXTENDS Integers, Sequences, FiniteSets, TLC

(***************************************************************************)
(* Bounds of the model.                                                    *)
(***************************************************************************)
\* notifications received by the handler process in one behaviour
MaxRequests == 2
\* segments in one transcription batch
MaxSegs == 3
\* largest max_retries value tried
MaxRetries == 3

(***************************************************************************)
(* Text helpers.                                                           *)
(***************************************************************************)
\* chr() over the ASCII range: Ascii[n + 1] is the character with code n
\* (control characters and the backquote are named by their code).
Ascii ==
    <<
       "x00", "x01", "x02", "x03", "x04", "x05", "x06", "x07", "x08", "x09", "x0A", "x0B", "x0C", "x0D", "x0E", "x0F",
       "x10", "x11", "x12", "x13", "x14", "x15", "x16", "x17", "x18", "x19", "x1A", "x1B", "x1C", "x1D", "x1E", "x1F",
       " ", "!", "\"", "#", "$", "%", "&", "'", "(", ")", "*", "+", ",", "-", ".", "/",
       "0", "1", "2", "3", "4", "5", "6", "7", "8", "9", ":", ";", "<", "=", ">", "?",
       "@", "A", "B", "C", "D", "E", "F", "G", "H", "I", "J", "K", "L", "M", "N", "O",
       "P", "Q", "R", "S", "T", "U", "V", "W", "X", "Y", "Z", "[", "\\", "]", "^", "_",
       "x60", "a", "b", "c", "d", "e", "f", "g", "h", "i", "j", "k", "l", "m", "n", "o",
       "p", "q", "r", "s", "t", "u", "v", "w", "x", "y", "z", "{", "|", "}", "~", "x7F"
    >>

\* The keys of urllib.parse._hextobyte are the pairs over 0-9, a-f and A-F.
HexDigits == <<"0", "1", "2", "3", "4", "5", "6", "7", "8", "9",
               "a", "b", "c", "d", "e", "f">>

UpperHex == <<"A", "B", "C", "D", "E", "F">>

IsHex(c) ==
    \/ \E i \in 1..Len(HexDigits) : HexDigits[i] = c
    \/ \E i \in 1..Len(UpperHex) : UpperHex[i] = c

HexVal(c) ==
    IF \E i \in 1..Len(UpperHex) : UpperHex[i] = c
    THEN 9 + (CHOOSE i \in 1..Len(UpperHex) : UpperHex[i] = c)
    ELSE (CHOOSE i \in 1..Len(HexDigits) : HexDigits[i] = c) - 1

\* bytes.decode('utf-8', errors='replace') of one unescaped byte: an ASCII
\* byte is its character, a lone byte >= 0x80 is U+FFFD.
ByteChr(n) == IF n < Len(Ascii) THEN Ascii[n + 1] ELSE "xFFFD"

\* urllib.parse.unquote: every "%" followed by two hex digits becomes the
\* byte they spell; any other "%" stays as it is.  One pass, left to right.
RECURSIVE UnquoteFrom(_, _)
UnquoteFrom(s, i) ==
    IF i > Len(s) THEN <<>>
    ELSE IF /\ s[i] = "%"
            /\ i + 2 <= Len(s)
            /\ IsHex(s[i + 1])
            /\ IsHex(s[i + 2])
         THEN <<ByteChr(16 * HexVal(s[i + 1]) + HexVal(s[i + 2]))>>
                  \o UnquoteFrom(s, i + 3)
         ELSE <<s[i]>> \o UnquoteFrom(s, i + 1)

Unquote(s) == UnquoteFrom(s, 1)

\* str.lower() on ASCII text: code 65..90 moves up by 32.
LowerChar(c) ==
    IF \E n \in 65..90 : Ascii[n + 1] = c
    THEN Ascii[(CHOOSE n \in 65..90 : Ascii[n + 1] = c) + 33]
    ELSE c

Lower(s) == [i \in 1..Len(s) |-> LowerChar(s[i])]

StartsWith(s, p) ==
    /\ Len(p) <= Len(s)
    /\ SubSeq(s, 1, Len(p)) = p

EndsWith(s, x) ==
    /\ Len(x) <= Len(s)
    /\ SubSeq(s, Len(s) - Len(x) + 1, Len(s)) = x

(***************************************************************************)
(* Configuration of the handler (literals of handle_event).                *)
(***************************************************************************)
InboxBucket == "audio-inbox"

ArtifactPrefix == <<"t", "r", "a", "n", "s", "c", "r", "i", "p", "t", "s", "/">>

audio_extensions ==
    { <<".", "m", "p", "3">>, <<".", "w", "a", "v">>, <<".", "m", "4", "a">>,
      <<".", "f", "l", "a", "c">>, <<".", "o", "g", "g">> }


(***************************************************************************)
(* Notifications.  A JSON field that the handler reads with                *)
(* d.get(field, {}).get(leaf) is one of: absent from d, present but not a  *)
(* mapping ("scalar": a string, a number, null, a list), a mapping without *)
(* the leaf, or a mapping with the leaf.                                   *)
(***************************************************************************)
BucketNames == {"audio-inbox", "Audio-Inbox", "other-bucket"}

KeyPrefixes ==
    { <<>>,
      <<"t", "r", "a", "n", "s", "c", "r", "i", "p", "t", "s", "/">>,
      <<"T", "r", "a", "n", "s", "c", "r", "i", "p", "t", "s", "/">>,
      <<"t", "r", "a", "n", "s", "c", "r", "i", "p", "t", "s", "%", "2", "F">>,
      <<"c", "a", "l", "l", "s", "/">> }

KeyBodies ==
    { <<"c", "a", "l", "l", "%", "2", "0", "o", "n", "e">>,
      <<"a", "%", "2", "5", "2", "0", "b">>,
      <<"a", "%", "z", "z", "b">> }

KeySuffixes ==
    { <<".", "m", "p", "3">>, <<".", "M", "P", "3">>, <<".", "w", "a", "v">>,
      <<".", "m", "4", "a">>, <<".", "f", "l", "a", "c">>, <<".", "O", "g", "g">>,
      <<".", "t", "x", "t">>, <<".", "m", "p", "%", "3", "3">>,
      <<".", "m", "p", "3", "%", "2", "0">>, <<>> }

\* every prefix with every suffix, and the escaped names as audio and text
Keys ==
    { p \o <<"c", "a", "l", "l">> \o x : p \in KeyPrefixes, x \in KeySuffixes }
        \cup { b \o x : b \in KeyBodies,
                        x \in { <<".", "m", "p", "3">>, <<".", "t", "x", "t">> } }

\* a few keys for the payloads whose shape, not whose key, is varied
SampleKeys ==
    { <<"c", "a", "l", "l", "%", "2", "0", "o", "n", "e", ".", "m", "p", "3">>,
      <<"t", "r", "a", "n", "s", "c", "r", "i", "p", "t", "s", "/", "c", "a", "l", "l", ".", "t", "x", "t">>,
      <<"n", "o", "t", "e", "s", ".", "t", "x", "t">> }

Absent(v) == [kind |-> "absent", has |-> FALSE, val |-> v]
Scalar(v) == [kind |-> "scalar", has |-> FALSE, val |-> v]
EmptyMap(v) == [kind |-> "map", has |-> FALSE, val |-> v]
With(v) == [kind |-> "map", has |-> TRUE, val |-> v]

BucketFields ==
    { With(b) : b \in BucketNames \cup {""} }
        \cup {Absent(""), Scalar(""), EmptyMap("")}

ObjectFields ==
    { With(k) : k \in SampleKeys \cup {<<>>} }
        \cup {Absent(<<>>), Scalar(<<>>), EmptyMap(<<>>)}

\* one element of "Records"
S3Record(b, o) == [kind |-> "map", s3 |-> "map", bucket |-> b, object |-> o]

Records ==
    { S3Record(b, o) : b \in BucketFields, o \in ObjectFields }
        \cup { [kind |-> "scalar", s3 |-> "absent",
                bucket |-> Absent(""), object |-> Absent(<<>>)],
               [kind |-> "map", s3 |-> "absent",
                bucket |-> Absent(""), object |-> Absent(<<>>)],
               [kind |-> "map", s3 |-> "scalar",
                bucket |-> Absent(""), object |-> Absent(<<>>)] }

\* the request body as from_http() hands it over
Event(d, rs, b, o) ==
    [valid |-> TRUE, data |-> d, Records |-> rs, bucket |-> b, object |-> o]

FlatEvents ==
    { Event("dict", <<>>, With(InboxBucket), With(k)) : k \in Keys }

ShapeEvents ==
    { Event("dict", <<>>, b, o) : b \in BucketFields, o \in ObjectFields }

RecordEvents ==
    { Event("dict", <<r>>, Absent(""), Absent(<<>>)) : r \in Records }

OtherEvents ==
    { Event("none", <<>>, Absent(""), Absent(<<>>)),
      Event("scalar", <<>>, Absent(""), Absent(<<>>)),
      [valid |-> FALSE, data |-> "none", Records |-> <<>>,
       bucket |-> Absent(""), object |-> Absent(<<>>)] }

\* several records, and top-level fields next to them
WrappedEvents ==
    LET audio == <<"c", "a", "l", "l", "%", "2", "0", "o", "n", "e", ".", "m", "p", "3">>
        notes == <<"n", "o", "t", "e", "s", ".", "t", "x", "t">>
        first == { S3Record(With("audio-inbox"), With(audio)),
                   S3Record(With("other-bucket"), With(audio)),
                   S3Record(With("audio-inbox"), Absent(<<>>)),
                   [kind |-> "map", s3 |-> "absent",
                    bucket |-> Absent(""), object |-> Absent(<<>>)] }
        later == { S3Record(With("audio-inbox"), With(audio)),
                   S3Record(With("other-bucket"), With(notes)) }
        top == { <<Absent(""), Absent(<<>>)>>,
                 <<With("audio-inbox"), With(notes)>> }
    IN { Event("dict", <<r, l>>, t[1], t[2]) :
           r \in first, l \in later, t \in top }

Events ==
    FlatEvents \cup ShapeEvents \cup RecordEvents \cup WrappedEvents
        \cup OtherEvents

\* the notifications fed to the threaded server
ThreadedEvents ==
    { Event("dict", <<>>, With(b), With(<<"a", ".", "m", "p", "3">>)) :
        b \in {"audio-inbox", "other-bucket"} }

(***************************************************************************)
(* Responses of handle_event: jsonify(...) and the HTTP status.            *)
(* reason holds 'reason' (ignored) or 'message' (success, error) as the    *)
(* pieces the text is formatted from.                                      *)
(***************************************************************************)
Response(st, code, text, rid, b, k) ==
    [status |-> st, http |-> code, reason |-> text,
     run_id |-> rid, bucket |-> b, object |-> k]

NoResponse == Response("none", 0, <<>>, 0, "", <<>>)

Ignored(text) == Response("ignored", 200, text, 0, "", <<>>)

\* lines 341-346: except Exception as e -> 'error', str(e), 500
ErrorResponse(text) == Response("error", 500, text, 0, "", <<>>)


(***************************************************************************)
(* handle_event, lines 266-321: parsing and the acceptance rules.          *)
(***************************************************************************)
\* d.get(field, {}).get(leaf): raises AttributeError when the field is
\* present and not a mapping, yields None when the field or leaf is absent.
GetLeaf(f) ==
    [exc |-> f.kind = "scalar", none |-> ~f.has, val |-> f.val]

\* a slip: the last record read instead of the first
ExtractLastRecord(ev) ==
    IF ev.Records = <<>>
    THEN [exc |-> GetLeaf(ev.bucket).exc \/ GetLeaf(ev.object).exc,
          bucket_name |-> GetLeaf(ev.bucket),
          object_key |-> GetLeaf(ev.object)]
    ELSE LET record == ev.Records[Len(ev.Records)]
             s3_bucket == IF record.s3 = "map" THEN record.bucket ELSE Absent("")
             s3_object == IF record.s3 = "map" THEN record.object ELSE Absent(<<>>)
         IN  [exc |-> \/ record.kind = "scalar"
                      \/ record.s3 = "scalar"
                      \/ GetLeaf(s3_bucket).exc
                      \/ GetLeaf(s3_object).exc,
              bucket_name |-> GetLeaf(s3_bucket),
              object_key |-> GetLeaf(s3_object)]

\* lines 284-297: the first record when "Records" is non-empty, the
\* top-level fields otherwise.
Extract(ev) ==
    IF ev.Records = <<>>
    THEN [exc |-> GetLeaf(ev.bucket).exc \/ GetLeaf(ev.object).exc,
          bucket_name |-> GetLeaf(ev.bucket),
          object_key |-> GetLeaf(ev.object)]
    ELSE LET record == ev.Records[1]
             s3_bucket == IF record.s3 = "map" THEN record.bucket ELSE Absent("")
             s3_object == IF record.s3 = "map" THEN record.object ELSE Absent(<<>>)
         IN  [exc |-> \/ record.kind = "scalar"
                      \/ record.s3 = "scalar"
                      \/ GetLeaf(s3_bucket).exc
                      \/ GetLeaf(s3_object).exc,
              bucket_name |-> GetLeaf(s3_bucket),
              object_key |-> GetLeaf(s3_object)]

\* line 299: not bucket_name or not object_key
Missing(x) ==
    \/ x.bucket_name.none
    \/ x.bucket_name.val = ""
    \/ x.object_key.none
    \/ x.object_key.val = <<>>

\* a slip: the key decoded a second time
NormalizeKeyTwice(k) == Unquote(Unquote(k))

\* line 303
NormalizeKey(k) == Unquote(k)

\* a slip: the bucket compared without regard to case
BucketMonitoredAnyCase(b) == b \in {"audio-inbox", "Audio-Inbox"}

\* line 306, negated
BucketMonitored(b) == b = InboxBucket

\* a slip: the prefix compared on the key as spelled
IsArtifactExactCase(k) == StartsWith(k, ArtifactPrefix)

\* line 311
IsArtifact(k) == StartsWith(Lower(k), ArtifactPrefix)

\* a slip: the extension compared on the key as spelled
IsAudioExactCase(k) == \E ext \in audio_extensions : EndsWith(k, ext)

\* lines 316-317, negated
IsAudio(k) == \E ext \in audio_extensions : EndsWith(Lower(k), ext)

AttributeErrorText == <<"object has no attribute 'get'">>

\* The outcome of lines 266-321: go = TRUE when trigger_pipeline is called
\* with (bucket, key), otherwise resp is what the handler returns.
Accept(b, k) == [go |-> TRUE, resp |-> NoResponse, bucket |-> b, key |-> k]

Reject(r) == [go |-> FALSE, resp |-> r, bucket |-> "", key |-> <<>>]

\* a slip: the extension rule applied before the prefix rule
FilterExtensionFirst(ev) ==
    IF ~ev.valid THEN Reject(ErrorResponse(<<"invalid CloudEvent">>))
    ELSE IF ev.data = "none" THEN Reject(Ignored(<<"no data">>))
    ELSE IF ev.data = "scalar" THEN Reject(ErrorResponse(AttributeErrorText))
    ELSE LET x == Extract(ev) IN
         IF x.exc THEN Reject(ErrorResponse(AttributeErrorText))
         ELSE IF Missing(x) THEN Reject(Ignored(<<"invalid event structure">>))
         ELSE LET bucket_name == x.bucket_name.val
                  object_key == NormalizeKey(x.object_key.val)
              IN  IF ~BucketMonitored(bucket_name)
                  THEN Reject(Ignored(<<"bucket ", bucket_name, " not monitored">>))
                  ELSE IF ~IsAudio(object_key)
                  THEN Reject(Ignored(<<"not an audio file">>))
                  ELSE IF IsArtifact(object_key)
                  THEN Reject(Ignored(<<"transcript artifacts are not ingested">>))
                  ELSE Accept(bucket_name, object_key)

Filter(ev) ==
    IF ~ev.valid THEN Reject(ErrorResponse(<<"invalid CloudEvent">>))
    ELSE IF ev.data = "none" THEN Reject(Ignored(<<"no data">>))
    ELSE IF ev.data = "scalar" THEN Reject(ErrorResponse(AttributeErrorText))
    ELSE LET x == Extract(ev) IN
         IF x.exc THEN Reject(ErrorResponse(AttributeErrorText))
         ELSE IF Missing(x) THEN Reject(Ignored(<<"invalid event structure">>))
         ELSE LET bucket_name == x.bucket_name.val
                  object_key == NormalizeKey(x.object_key.val)
              IN  IF ~BucketMonitored(bucket_name)
                  THEN Reject(Ignored(<<"bucket ", bucket_name, " not monitored">>))
                  ELSE IF IsArtifact(object_key)
                  THEN Reject(Ignored(<<"transcript artifacts are not ingested">>))
                  ELSE IF ~IsAudio(object_key)
                  THEN Reject(Ignored(<<"not an audio file">>))
                  ELSE Accept(bucket_name, object_key)


(***************************************************************************)
(* State.                                                                  *)
(***************************************************************************)
\* threads of the Flask server in the threaded dispatch
NumThreads == 2

Procs == 1..NumThreads

VARIABLES
    \* --- the handler process (app.py) ---
    dispatch,              \* "serial": one request at a time; "threaded"
    pc,                    \* per thread: where it is in handle_event
    req,                   \* per thread: the notification being handled
    trig,                  \* per thread: the arguments trigger_pipeline got
    experiment_id,         \* per thread: local of trigger_pipeline (line 190)
    pipeline_id,           \* per thread: local of trigger_pipeline (line 191)
    calls,                 \* per thread: outbound calls of this invocation
    resp,                  \* per thread: the response of handle_event
    cached_experiment_id,  \* module global, line 60
    cached_pipeline_id,    \* module global, line 59
    kfpExperiments,        \* orchestration API: ids of the named experiment
    kfpPipeline,           \* orchestration API: id of the named pipeline or 0
    kfpRuns,               \* orchestration API: the runs created
    nreq,                  \* notifications received so far
    expLog,                \* finished experiment resolutions, in order
    pipeLog,               \* finished pipeline resolutions, in order
    \* --- one transcription batch (transcription.py) ---
    bpc,                   \* where batch_transcribe_segments is
    segments,              \* argument: the segment list
    api_key,               \* argument: "" selects the stub mode
    max_retries,           \* argument
    pos,                   \* index of the segment being processed
    attempt,               \* loop variable of transcribe_audio_segment
    successful_transcriptions,
    failed_transcriptions,
    sleeps,                \* every time.sleep() argument, in order
    attempts,              \* per position: [seg, attempt, ok] of each attempt
    clients,               \* OpenAI clients constructed
    \* --- assembling the transcript (transcription.py) ---
    apc,                   \* which of the two assembly functions have run
    transcriptions,        \* argument: the successful results
    output_path,           \* argument: "" is None
    complete_transcript,   \* return value of create_complete_transcript
    written,               \* what was written to output_path
    metadata               \* return value of create_transcript_metadata

hvars == <<dispatch, pc, req, trig, experiment_id, pipeline_id, calls, resp,
           cached_experiment_id, cached_pipeline_id, kfpExperiments,
           kfpPipeline, kfpRuns, nreq, expLog, pipeLog>>

bvars == <<bpc, segments, api_key, max_retries, pos, attempt,
           successful_transcriptions, failed_transcriptions, sleeps,
           attempts, clients>>

avars == <<apc, transcriptions, output_path, complete_transcript, written,
           metadata>>

vars == <<hvars, bvars, avars>>

(***************************************************************************)
(* The handler process.                                                    *)
(***************************************************************************)
Workers == IF dispatch = "serial" THEN {1} ELSE Procs

Feed == IF dispatch = "serial" THEN Events ELSE ThreadedEvents

NoEvent ==
    [valid |-> FALSE, data |-> "idle", Records |-> <<>>,
     bucket |-> Absent(""), object |-> Absent(<<>>)]

NoTrigger == [called |-> FALSE, bucket |-> "", key |-> <<>>]

\* one finished resolution: whether it returned an id, the id, and the
\* outbound calls it issued
Resolution(ok, id, n) == [ok |-> ok, id |-> id, calls |-> n]

CallsTo(log, names) == Cardinality({i \in 1..Len(log) : log[i] \in names})

ExperimentCalls == {"GET experiments", "POST experiments"}

PipelineCalls == {"GET pipelines"}

\* _kfp_request, lines 86-98: status >= 400 raises RuntimeError
KfpFailure(method, path) ==
    ErrorResponse(<<"KFP API ", method, " ", path, " failed">>)

HandlerIdle ==
    /\ pc = [p \in Procs |-> "idle"]
    /\ req = [p \in Procs |-> NoEvent]
    /\ trig = [p \in Procs |-> NoTrigger]
    /\ experiment_id = [p \in Procs |-> 0]
    /\ pipeline_id = [p \in Procs |-> 0]
    /\ calls = [p \in Procs |-> <<>>]
    /\ resp = [p \in Procs |-> NoResponse]
    /\ cached_experiment_id = 0
    /\ cached_pipeline_id = 0
    /\ kfpRuns = <<>>
    /\ nreq = 0
    /\ expLog = <<>>
    /\ pipeLog = <<>>

BatchIdle ==
    /\ bpc = "off"
    /\ segments = <<>>
    /\ api_key = ""
    /\ max_retries = 0
    /\ pos = 0
    /\ attempt = 0
    /\ successful_transcriptions = <<>>
    /\ failed_transcriptions = <<>>
    /\ sleeps = <<>>
    /\ attempts = <<>>
    /\ clients = 0

AssemblyIdle ==
    /\ apc = {}
    /\ transcriptions = <<>>
    /\ output_path = ""
    /\ complete_transcript = <<>>
    /\ written = <<>>
    /\ metadata = <<>>

\* the experiment may exist already; the pipeline may be registered or not
ServerInit ==
    /\ kfpExperiments \in {<<>>, <<1>>}
    /\ kfpPipeline \in {0, 9}

Init ==
    /\ dispatch = "serial"
    /\ HandlerIdle
    /\ ServerInit
    /\ BatchIdle
    /\ AssemblyIdle

InitThreaded ==
    /\ dispatch = "threaded"
    /\ HandlerIdle
    /\ ServerInit
    /\ BatchIdle
    /\ AssemblyIdle

\* handle_event up to the call of trigger_pipeline (lines 266-324)
Receive(p, ev) ==
    /\ pc[p] = "idle"
    /\ nreq < MaxRequests
    /\ nreq' = nreq + 1
    /\ req' = [req EXCEPT ![p] = ev]
    /\ LET f == Filter(ev) IN
       IF f.go
       THEN /\ trig' = [trig EXCEPT ![p] =
                            [called |-> TRUE, bucket |-> f.bucket, key |-> f.key]]
            /\ pc' = [pc EXCEPT ![p] = "exp_check"]
            /\ resp' = resp
       ELSE /\ trig' = trig
            /\ pc' = [pc EXCEPT ![p] = "done"]
            /\ resp' = [resp EXCEPT ![p] = f.resp]
    /\ UNCHANGED <<dispatch, experiment_id, pipeline_id, calls,
                   cached_experiment_id, cached_pipeline_id, kfpExperiments,
                   kfpPipeline, kfpRuns, expLog, pipeLog>>
    /\ UNCHANGED <<bvars, avars>>

\* a slip: the cache slot is never consulted
ExpCheckNoCache(p) ==
    /\ pc[p] = "exp_check"
    /\ pc' = [pc EXCEPT ![p] = "exp_get"]
    /\ UNCHANGED <<dispatch, req, trig, experiment_id, pipeline_id, calls, resp,
                   cached_experiment_id, cached_pipeline_id, kfpExperiments,
                   kfpPipeline, kfpRuns, nreq, expLog, pipeLog>>
    /\ UNCHANGED <<bvars, avars>>

\* _get_or_create_experiment_id, lines 125-126
ExpCheck(p) ==
    /\ pc[p] = "exp_check"
    /\ IF cached_experiment_id # 0
       THEN /\ experiment_id' = [experiment_id EXCEPT ![p] = cached_experiment_id]
            /\ expLog' = Append(expLog, Resolution(TRUE, cached_experiment_id, 0))
            /\ pc' = [pc EXCEPT ![p] = "pipe_check"]
       ELSE /\ pc' = [pc EXCEPT ![p] = "exp_get"]
            /\ UNCHANGED <<experiment_id, expLog>>
    /\ UNCHANGED <<dispatch, req, trig, pipeline_id, calls, resp,
                   cached_experiment_id, cached_pipeline_id, kfpExperiments,
                   kfpPipeline, kfpRuns, nreq, pipeLog>>
    /\ UNCHANGED <<bvars, avars>>

\* _get_or_create_experiment_id, lines 128-139: the lookup
ExpGet(p, answer) ==
    /\ pc[p] = "exp_get"
    /\ calls' = [calls EXCEPT ![p] = Append(@, "GET experiments")]
    /\ LET n == CallsTo(calls'[p], ExperimentCalls) IN
       IF answer = "fail"
       THEN /\ resp' = [resp EXCEPT ![p] = KfpFailure("GET", "experiments")]
            /\ expLog' = Append(expLog, Resolution(FALSE, 0, n))
            /\ pc' = [pc EXCEPT ![p] = "done"]
            /\ UNCHANGED <<experiment_id, cached_experiment_id>>
       ELSE IF kfpExperiments # <<>>
       THEN /\ cached_experiment_id' = kfpExperiments[1]
            /\ experiment_id' = [experiment_id EXCEPT ![p] = kfpExperiments[1]]
            /\ expLog' = Append(expLog, Resolution(TRUE, kfpExperiments[1], n))
            /\ pc' = [pc EXCEPT ![p] = "pipe_check"]
            /\ resp' = resp
       ELSE /\ pc' = [pc EXCEPT ![p] = "exp_post"]
            /\ UNCHANGED <<experiment_id, cached_experiment_id, expLog, resp>>
    /\ UNCHANGED <<dispatch, req, trig, pipeline_id, cached_pipeline_id,
                   kfpExperiments, kfpPipeline, kfpRuns, nreq, pipeLog>>
    /\ UNCHANGED <<bvars, avars>>

\* a slip: the cache slot read again before the create call
ExpPostRecheck(p, answer) ==
    /\ pc[p] = "exp_post"
    /\ IF cached_experiment_id # 0
       THEN /\ experiment_id' = [experiment_id EXCEPT ![p] = cached_experiment_id]
            /\ expLog' = Append(expLog,
                   Resolution(TRUE, cached_experiment_id,
                              CallsTo(calls[p], ExperimentCalls)))
            /\ pc' = [pc EXCEPT ![p] = "pipe_check"]
            /\ UNCHANGED <<calls, resp, cached_experiment_id, kfpExperiments>>
       ELSE /\ calls' = [calls EXCEPT ![p] = Append(@, "POST experiments")]
            /\ LET n == CallsTo(calls'[p], ExperimentCalls)
                   new_id == Len(kfpExperiments) + 1
               IN
               IF answer = "fail"
               THEN /\ resp' = [resp EXCEPT ![p] = KfpFailure("POST", "experiments")]
                    /\ expLog' = Append(expLog, Resolution(FALSE, 0, n))
                    /\ pc' = [pc EXCEPT ![p] = "done"]
                    /\ UNCHANGED <<experiment_id, cached_experiment_id, kfpExperiments>>
               ELSE IF answer = "noid"
               THEN /\ kfpExperiments' = Append(kfpExperiments, new_id)
                    /\ resp' = [resp EXCEPT ![p] = ErrorResponse(
                           <<"Failed to create or retrieve experiment ID from KFP">>)]
                    /\ expLog' = Append(expLog, Resolution(FALSE, 0, n))
                    /\ pc' = [pc EXCEPT ![p] = "done"]
                    /\ UNCHANGED <<experiment_id, cached_experiment_id>>
               ELSE /\ kfpExperiments' = Append(kfpExperiments, new_id)
                    /\ cached_experiment_id' = new_id
                    /\ experiment_id' = [experiment_id EXCEPT ![p] = new_id]
                    /\ expLog' = Append(expLog, Resolution(TRUE, new_id, n))
                    /\ pc' = [pc EXCEPT ![p] = "pipe_check"]
                    /\ resp' = resp
    /\ UNCHANGED <<dispatch, req, trig, pipeline_id, cached_pipeline_id,
                   kfpPipeline, kfpRuns, nreq, pipeLog>>
    /\ UNCHANGED <<bvars, avars>>

\* _get_or_create_experiment_id, lines 141-154: the create call
ExpPost(p, answer) ==
    /\ pc[p] = "exp_post"
    /\ calls' = [calls EXCEPT ![p] = Append(@, "POST experiments")]
    /\ LET n == CallsTo(calls'[p], ExperimentCalls)
           new_id == Len(kfpExperiments) + 1
       IN
       IF answer = "fail"
       THEN /\ resp' = [resp EXCEPT ![p] = KfpFailure("POST", "experiments")]
            /\ expLog' = Append(expLog, Resolution(FALSE, 0, n))
            /\ pc' = [pc EXCEPT ![p] = "done"]
            /\ UNCHANGED <<experiment_id, cached_experiment_id, kfpExperiments>>
       ELSE IF answer = "noid"
       THEN /\ kfpExperiments' = Append(kfpExperiments, new_id)
            /\ resp' = [resp EXCEPT ![p] = ErrorResponse(
                   <<"Failed to create or retrieve experiment ID from KFP">>)]
            /\ expLog' = Append(expLog, Resolution(FALSE, 0, n))
            /\ pc' = [pc EXCEPT ![p] = "done"]
            /\ UNCHANGED <<experiment_id, cached_experiment_id>>
       ELSE /\ kfpExperiments' = Append(kfpExperiments, new_id)
            /\ cached_experiment_id' = new_id
            /\ experiment_id' = [experiment_id EXCEPT ![p] = new_id]
            /\ expLog' = Append(expLog, Resolution(TRUE, new_id, n))
            /\ pc' = [pc EXCEPT ![p] = "pipe_check"]
            /\ resp' = resp
    /\ UNCHANGED <<dispatch, req, trig, pipeline_id, cached_pipeline_id,
                   kfpPipeline, kfpRuns, nreq, pipeLog>>
    /\ UNCHANGED <<bvars, avars>>


\* _get_pipeline_id, lines 159-160
PipeCheck(p) ==
    /\ pc[p] = "pipe_check"
    /\ IF cached_pipeline_id # 0
       THEN /\ pipeline_id' = [pipeline_id EXCEPT ![p] = cached_pipeline_id]
            /\ pipeLog' = Append(pipeLog, Resolution(TRUE, cached_pipeline_id, 0))
            /\ pc' = [pc EXCEPT ![p] = "run_post"]
       ELSE /\ pc' = [pc EXCEPT ![p] = "pipe_get"]
            /\ UNCHANGED <<pipeline_id, pipeLog>>
    /\ UNCHANGED <<dispatch, req, trig, experiment_id, calls, resp,
                   cached_experiment_id, cached_pipeline_id, kfpExperiments,
                   kfpPipeline, kfpRuns, nreq, expLog>>
    /\ UNCHANGED <<bvars, avars>>

\* a slip: a pipeline that is not registered is registered by the handler
PipeGetAutoCreate(p, answer) ==
    /\ pc[p] = "pipe_get"
    /\ LET found == answer # "fail" /\ kfpPipeline # 0
           create == answer # "fail" /\ kfpPipeline = 0
           n == IF create THEN 2 ELSE 1
       IN
       /\ calls' = [calls EXCEPT ![p] =
              IF create THEN @ \o <<"GET pipelines", "POST pipelines">>
              ELSE Append(@, "GET pipelines")]
       /\ IF answer = "fail"
          THEN /\ resp' = [resp EXCEPT ![p] = KfpFailure("GET", "pipelines")]
               /\ pipeLog' = Append(pipeLog, Resolution(FALSE, 0, n))
               /\ pc' = [pc EXCEPT ![p] = "done"]
               /\ UNCHANGED <<pipeline_id, cached_pipeline_id, kfpPipeline>>
          ELSE /\ kfpPipeline' = IF found THEN kfpPipeline ELSE 9
               /\ cached_pipeline_id' = kfpPipeline'
               /\ pipeline_id' = [pipeline_id EXCEPT ![p] = kfpPipeline']
               /\ pipeLog' = Append(pipeLog, Resolution(TRUE, kfpPipeline', n))
               /\ pc' = [pc EXCEPT ![p] = "run_post"]
               /\ resp' = resp
    /\ UNCHANGED <<dispatch, req, trig, experiment_id, cached_experiment_id,
                   kfpExperiments, kfpRuns, nreq, expLog>>
    /\ UNCHANGED <<bvars, avars>>

\* a slip: no match returns None instead of raising
PipeGetNoRaise(p, answer) ==
    /\ pc[p] = "pipe_get"
    /\ calls' = [calls EXCEPT ![p] = Append(@, "GET pipelines")]
    /\ LET n == CallsTo(calls'[p], PipelineCalls) IN
       IF answer = "fail"
       THEN /\ resp' = [resp EXCEPT ![p] = KfpFailure("GET", "pipelines")]
            /\ pipeLog' = Append(pipeLog, Resolution(FALSE, 0, n))
            /\ pc' = [pc EXCEPT ![p] = "done"]
            /\ UNCHANGED <<pipeline_id, cached_pipeline_id>>
       ELSE IF kfpPipeline # 0
       THEN /\ cached_pipeline_id' = kfpPipeline
            /\ pipeline_id' = [pipeline_id EXCEPT ![p] = kfpPipeline]
            /\ pipeLog' = Append(pipeLog, Resolution(TRUE, kfpPipeline, n))
            /\ pc' = [pc EXCEPT ![p] = "run_post"]
            /\ resp' = resp
       ELSE /\ pipeLog' = Append(pipeLog, Resolution(FALSE, 0, n))
            /\ pc' = [pc EXCEPT ![p] = "run_post"]
            /\ UNCHANGED <<pipeline_id, cached_pipeline_id, resp>>
    /\ UNCHANGED <<dispatch, req, trig, experiment_id, cached_experiment_id,
                   kfpExperiments, kfpPipeline, kfpRuns, nreq, expLog>>
    /\ UNCHANGED <<bvars, avars>>

\* _get_pipeline_id, lines 162-177: the list call and the scan
PipeGet(p, answer) ==
    /\ pc[p] = "pipe_get"
    /\ calls' = [calls EXCEPT ![p] = Append(@, "GET pipelines")]
    /\ LET n == CallsTo(calls'[p], PipelineCalls) IN
       IF answer = "fail"
       THEN /\ resp' = [resp EXCEPT ![p] = KfpFailure("GET", "pipelines")]
            /\ pipeLog' = Append(pipeLog, Resolution(FALSE, 0, n))
            /\ pc' = [pc EXCEPT ![p] = "done"]
            /\ UNCHANGED <<pipeline_id, cached_pipeline_id>>
       ELSE IF kfpPipeline # 0
       THEN /\ cached_pipeline_id' = kfpPipeline
            /\ pipeline_id' = [pipeline_id EXCEPT ![p] = kfpPipeline]
            /\ pipeLog' = Append(pipeLog, Resolution(TRUE, kfpPipeline, n))
            /\ pc' = [pc EXCEPT ![p] = "run_post"]
            /\ resp' = resp
       ELSE /\ resp' = [resp EXCEPT ![p] = ErrorResponse(
                   <<"Pipeline '", "audio-transcription-pipeline", "' not found">>)]
            /\ pipeLog' = Append(pipeLog, Resolution(FALSE, 0, n))
            /\ pc' = [pc EXCEPT ![p] = "done"]
            /\ UNCHANGED <<pipeline_id, cached_pipeline_id>>
    /\ UNCHANGED <<dispatch, req, trig, experiment_id, cached_experiment_id,
                   kfpExperiments, kfpPipeline, kfpRuns, nreq, expLog>>
    /\ UNCHANGED <<bvars, avars>>

\* trigger_pipeline, lines 193-218: the create-run request
RunRequest(p) ==
    [experiment_id |-> experiment_id[p],
     pipeline_id |-> pipeline_id[p],
     s3_bucket |-> trig[p].bucket,
     s3_key |-> trig[p].key,
     by |-> p]

\* a slip: a failed submission is sent again
RunPostRetry(p, answer) ==
    /\ pc[p] = "run_post"
    /\ calls' = [calls EXCEPT ![p] = Append(@, "POST runs")]
    /\ IF answer = "fail"
       THEN /\ pc' = pc
            /\ resp' = resp
            /\ kfpRuns' = kfpRuns
       ELSE /\ pc' = [pc EXCEPT ![p] = "done"]
            /\ kfpRuns' = Append(kfpRuns, RunRequest(p))
            /\ resp' = [resp EXCEPT ![p] =
                 IF answer = "empty"
                 THEN Response("error", 500, <<"Failed to trigger pipeline">>,
                               0, "", <<>>)
                 ELSE Response("success", 200, <<"Pipeline triggered">>,
                               IF answer = "ok" THEN Len(kfpRuns) + 1 ELSE 0,
                               trig[p].bucket, trig[p].key)]
    /\ UNCHANGED <<dispatch, req, trig, experiment_id, pipeline_id,
                   cached_experiment_id, cached_pipeline_id, kfpExperiments,
                   kfpPipeline, nreq, expLog, pipeLog>>
    /\ UNCHANGED <<bvars, avars>>

\* trigger_pipeline lines 220-240 and handle_event lines 324-346.
\* answer: "fail" (status >= 400), "ok" (a body with run_id), "noid" (a JSON
\* body without run_id), "empty" (no body or not JSON: _kfp_request gives {})
RunPost(p, answer) ==
    /\ pc[p] = "run_post"
    /\ calls' = [calls EXCEPT ![p] = Append(@, "POST runs")]
    /\ pc' = [pc EXCEPT ![p] = "done"]
    /\ IF answer = "fail"
       THEN /\ resp' = [resp EXCEPT ![p] = KfpFailure("POST", "runs")]
            /\ kfpRuns' = kfpRuns
       ELSE /\ kfpRuns' = Append(kfpRuns, RunRequest(p))
            /\ resp' = [resp EXCEPT ![p] =
                 IF answer = "empty"
                 THEN Response("error", 500, <<"Failed to trigger pipeline">>,
                               0, "", <<>>)
                 ELSE Response("success", 200, <<"Pipeline triggered">>,
                               IF answer = "ok" THEN Len(kfpRuns) + 1 ELSE 0,
                               trig[p].bucket, trig[p].key)]
    /\ UNCHANGED <<dispatch, req, trig, experiment_id, pipeline_id,
                   cached_experiment_id, cached_pipeline_id, kfpExperiments,
                   kfpPipeline, nreq, expLog, pipeLog>>
    /\ UNCHANGED <<bvars, avars>>

\* the response is sent; the thread is free for the next request
Finish(p) ==
    /\ pc[p] = "done"
    /\ pc' = [pc EXCEPT ![p] = "idle"]
    /\ req' = [req EXCEPT ![p] = NoEvent]
    /\ trig' = [trig EXCEPT ![p] = NoTrigger]
    /\ experiment_id' = [experiment_id EXCEPT ![p] = 0]
    /\ pipeline_id' = [pipeline_id EXCEPT ![p] = 0]
    /\ calls' = [calls EXCEPT ![p] = <<>>]
    /\ resp' = [resp EXCEPT ![p] = NoResponse]
    /\ UNCHANGED <<dispatch, cached_experiment_id, cached_pipeline_id,
                   kfpExperiments, kfpPipeline, kfpRuns, nreq, expLog, pipeLog>>
    /\ UNCHANGED <<bvars, avars>>

Next ==
    \/ \E p \in Workers, ev \in Feed : Receive(p, ev)
    \/ \E p \in Workers : ExpCheck(p)
    \/ \E p \in Workers, a \in {"fail", "ok"} : ExpGet(p, a)
    \/ \E p \in Workers, a \in {"fail", "noid", "ok"} : ExpPost(p, a)
    \/ \E p \in Workers : PipeCheck(p)
    \/ \E p \in Workers, a \in {"fail", "ok"} : PipeGet(p, a)
    \/ \E p \in Workers, a \in {"fail", "ok", "noid", "empty"} : RunPost(p, a)
    \/ \E p \in Workers : Finish(p)

\* the handler serving one request at a time, over every notification shape
Spec == Init /\ [][Next]_vars

\* the handler under Flask's threaded server
SpecThreaded == InitThreaded /\ [][Next]_vars


(***************************************************************************)
(* Properties of the event filter.                                         *)
(***************************************************************************)
InSeq(x, s) == \E i \in 1..Len(s) : s[i] = x

\* the notification yields a bucket name and an object key (§3: both
\* non-empty after normalization)
Normalized(ev) ==
    /\ ev.valid
    /\ ev.data = "dict"
    /\ ~Extract(ev).exc
    /\ ~Missing(Extract(ev))

RawBucket(ev) == Extract(ev).bucket_name.val

RawKey(ev) == Extract(ev).object_key.val

Handling(p) == pc[p] # "idle"

Mp3 == <<".", "m", "p", "3">>

\* C1: a notification whose normalized bucket is not 'audio-inbox' is
\* answered 'ignored' / 200 with a reason naming the bucket, and the
\* invocation issues no outbound call and never calls trigger_pipeline.
C1_ForeignBucketIgnored ==
    \A p \in Procs :
        (Handling(p) /\ Normalized(req[p]) /\ RawBucket(req[p]) # "audio-inbox")
        => /\ pc[p] = "done"
           /\ resp[p].status = "ignored"
           /\ resp[p].http = 200
           /\ InSeq(RawBucket(req[p]), resp[p].reason)
           /\ calls[p] = <<>>
           /\ ~trig[p].called
           /\ \A i \in 1..Len(kfpRuns) : kfpRuns[i].s3_bucket = "audio-inbox"

\* an audio key outside the artifact prefix, from another bucket, ignored
C1_Witness ==
    \E p \in Procs :
        /\ pc[p] = "done"
        /\ Normalized(req[p])
        /\ RawBucket(req[p]) = "other-bucket"
        /\ EndsWith(RawKey(req[p]), Mp3)
        /\ ~StartsWith(Lower(Unquote(RawKey(req[p]))), ArtifactPrefix)
        /\ resp[p] = Ignored(<<"bucket ", "other-bucket", " not monitored">>)

\* C2: an inbox notification whose key starts, without regard to case,
\* with 'transcripts/' is ignored with the artifact reason whatever its
\* extension, and trigger_pipeline is not called.
C2_ArtifactPrefixIgnored ==
    \A p \in Procs :
        ( /\ Handling(p)
          /\ Normalized(req[p])
          /\ RawBucket(req[p]) = "audio-inbox"
          /\ \/ StartsWith(Lower(RawKey(req[p])), ArtifactPrefix)
             \/ StartsWith(Lower(Unquote(RawKey(req[p]))), ArtifactPrefix) )
        => /\ pc[p] = "done"
           /\ resp[p] = Ignored(<<"transcript artifacts are not ingested">>)
           /\ ~trig[p].called
           /\ calls[p] = <<>>

\* 'Transcripts/....mp3': another case, an allowed audio extension
C2_Witness ==
    \E p \in Procs :
        /\ pc[p] = "done"
        /\ Normalized(req[p])
        /\ RawBucket(req[p]) = "audio-inbox"
        /\ StartsWith(RawKey(req[p]),
                      <<"T", "r", "a", "n", "s", "c", "r", "i", "p", "t", "s", "/">>)
        /\ EndsWith(RawKey(req[p]), Mp3)
        /\ resp[p].status = "ignored"
        /\ ~trig[p].called

\* the three conditions of C3 with the prefix compared as the claim words
\* it (on the decoded key as spelled) ...
AcceptedAsWorded(ev) ==
    /\ Normalized(ev)
    /\ RawBucket(ev) = "audio-inbox"
    /\ ~StartsWith(Unquote(RawKey(ev)), ArtifactPrefix)
    /\ \E ext \in audio_extensions : EndsWith(Lower(Unquote(RawKey(ev))), ext)

\* ... and with the prefix compared without regard to case
AcceptedAnyCase(ev) ==
    /\ Normalized(ev)
    /\ RawBucket(ev) = "audio-inbox"
    /\ ~StartsWith(Lower(Unquote(RawKey(ev))), ArtifactPrefix)
    /\ \E ext \in audio_extensions : EndsWith(Lower(Unquote(RawKey(ev))), ext)

TriggeredWith(p, b, k) ==
    /\ trig[p].called
    /\ trig[p].bucket = b
    /\ trig[p].key = k

\* C3 as stated: trigger_pipeline is invoked, with the bucket and the
\* decoded key, exactly for the notifications from the inbox bucket whose
\* decoded key does not start with 'transcripts/' and ends, without regard
\* to case, with an audio extension.
C3_AsStated ==
    \A p \in Procs :
        Handling(p) =>
            IF AcceptedAsWorded(req[p])
            THEN TriggeredWith(p, RawBucket(req[p]), Unquote(RawKey(req[p])))
            ELSE ~trig[p].called

\* C3 amended: the same with the prefix 'transcripts/' compared without
\* regard to case.
C3_AcceptedIffRules ==
    \A p \in Procs :
        Handling(p) =>
            IF AcceptedAnyCase(req[p])
            THEN TriggeredWith(p, RawBucket(req[p]), Unquote(RawKey(req[p])))
            ELSE ~trig[p].called

\* 'call%20one.mp3' from the inbox: triggered with 'call one.mp3'
C3_Witness ==
    \E p \in Procs :
        /\ RawKey(req[p]) =
             <<"c", "a", "l", "l", "%", "2", "0", "o", "n", "e", ".", "m", "p", "3">>
        /\ TriggeredWith(p, "audio-inbox",
             <<"c", "a", "l", "l", " ", "o", "n", "e", ".", "m", "p", "3">>)

\* C4: the key handed to trigger_pipeline and sent as s3_key is the raw key
\* percent-decoded exactly once ('a%2520b.mp3' goes out as 'a%20b.mp3'),
\* and the rules were evaluated on that decoded key.
C4_DecodedOnce ==
    \A p \in Procs :
        trig[p].called =>
            LET raw == RawKey(req[p])
                key == Unquote(raw)
            IN  /\ trig[p].key = key
                /\ raw = <<"a", "%", "2", "5", "2", "0", "b", ".", "m", "p", "3">>
                     => trig[p].key =
                          <<"a", "%", "2", "0", "b", ".", "m", "p", "3">>
                /\ ~StartsWith(Lower(key), ArtifactPrefix)
                /\ \E ext \in audio_extensions : EndsWith(Lower(key), ext)
                /\ (InSeq("POST runs", calls[p]) /\ resp[p].status = "success")
                     => /\ kfpRuns[Len(kfpRuns)].s3_key = key
                        /\ resp[p].object = key

\* 'a%2520b.mp3' accepted and submitted as 'a%20b.mp3'
C4_Witness ==
    \E p \in Procs :
        /\ pc[p] = "done"
        /\ RawKey(req[p]) = <<"a", "%", "2", "5", "2", "0", "b", ".", "m", "p", "3">>
        /\ resp[p].status = "success"
        /\ kfpRuns # <<>>
        /\ kfpRuns[Len(kfpRuns)].s3_key =
             <<"a", "%", "2", "0", "b", ".", "m", "p", "3">>

(***************************************************************************)
(* Properties of the resolver cache.                                       *)
(***************************************************************************)
\* C5 as stated: two resolutions of a resource, the first of which cached
\* an id, issue at most one outbound resolution call in total, and the
\* second returns the id the first cached.
C5_AsStated ==
    \A log \in {expLog, pipeLog} :
        (Len(log) >= 2 /\ log[1].ok)
        => /\ log[1].calls + log[2].calls <= 1
           /\ log[2].ok
           /\ log[2].id = log[1].id

\* C5 amended: when resolutions run one after the other, every resolution
\* that follows a successful one issues no outbound call and returns the
\* identical id; a resolution on an empty cache issues at most two calls
\* for the experiment (lookup, create) and one for the pipeline (list).
C5_CachedAfterSuccess ==
    /\ \A log \in {expLog, pipeLog} :
         \A i, j \in 1..Len(log) :
            (i < j /\ log[i].ok)
            => /\ log[j].ok
               /\ log[j].calls = 0
               /\ log[j].id = log[i].id
    /\ \A i \in 1..Len(expLog) : expLog[i].calls <= 2
    /\ \A i \in 1..Len(pipeLog) : pipeLog[i].calls <= 1

\* a first resolution that created the experiment, then a cached second one
C5_Witness ==
    /\ Len(expLog) >= 2
    /\ expLog[1] = Resolution(TRUE, 1, 2)
    /\ expLog[2] = Resolution(TRUE, 1, 0)
    /\ Len(pipeLog) >= 2
    /\ pipeLog[1] = Resolution(TRUE, 9, 1)
    /\ pipeLog[2] = Resolution(TRUE, 9, 0)


(***************************************************************************)
(* transcription.py: batch_transcribe_segments and                         *)
(* transcribe_audio_segment.  Times are whole seconds.  An error value of  *)
(* <<>> stands for None; every exception text is non-empty.                *)
(***************************************************************************)
\* retry_delay, the default of transcribe_audio_segment (the batch passes
\* none)
retry_delay == 2

Segment(id, file, name, start, end, dur) ==
    [segment_id |-> id, path |-> file, filename |-> name,
     start_time |-> start, end_time |-> end, duration |-> dur]

\* the segments a batch is drawn from: ids need not be contiguous, one
\* segment has no 'filename' and no 'duration' value, and its file is gone
SegmentPool ==
    { Segment(0, "seg_000.wav", "seg_000.wav", 0, 75, 75),
      Segment(1, "seg_001.wav", "seg_001.wav", 75, 140, 65),
      Segment(7, "seg_007.wav", "", 140, 200, 0) }

\* files that open() does not find
MissingFiles == {"seg_007.wav"}

Batches == UNION { [1..n -> SegmentPool] : n \in 0..MaxSegs }

Text(kind, index, file) == [kind |-> kind, index |-> index, file |-> file]

\* the result dictionary of lines 103-112, 121-130 and 182-191
Result(id, text, start, end, dur, name, ok, err) ==
    [segment_id |-> id, text |-> text, start_time |-> start,
     end_time |-> end, duration |-> dur, filename |-> name,
     success |-> ok, error |-> err]

\* lines 170-191: the stub result of one segment
StubResult(segment) ==
    LET filename == IF segment.filename # "" THEN segment.filename
                    ELSE segment.path
        duration == IF segment.duration # 0 THEN segment.duration
                    ELSE IF segment.end_time - segment.start_time > 0
                         THEN segment.end_time - segment.start_time
                         ELSE 0
    IN  Result(segment.segment_id,
               Text("demo", segment.segment_id + 1, filename),
               segment.start_time, segment.end_time, duration, filename,
               TRUE, <<>>)

\* lines 103-112
SuccessResult(segment) ==
    Result(segment.segment_id, Text("model", 0, segment.path),
           segment.start_time, segment.end_time, segment.duration,
           segment.filename, TRUE, <<>>)

\* str(e) of what an attempt raised
ErrorText(outcome, segment) ==
    IF outcome = "nofile"
    THEN <<"Audio file not found: ", segment.path>>
    ELSE <<"inference request failed">>

\* lines 121-130
FailureResult(segment, outcome) ==
    Result(segment.segment_id, Text("empty", 0, ""),
           segment.start_time, segment.end_time, segment.duration,
           segment.filename, FALSE, ErrorText(outcome, segment))

\* what one attempt can do: the file is missing (encode_audio_file_to_base64
\* raises), or the inference call returns or raises
Outcomes(segment) ==
    IF segment.path \in MissingFiles THEN {"nofile"} ELSE {"ok", "api"}

\* a slip: the same delay before every retry
BackoffFlat(i) == retry_delay

\* line 118: the argument of time.sleep
Backoff(i) == retry_delay * (i + 1)

\* a slip: a sleep after the last failed attempt as well
AttemptsRemainAlways(i) == i < max_retries

\* line 117: another attempt follows
AttemptsRemain(i) == i < max_retries - 1

InitBatch ==
    /\ dispatch = "serial"
    /\ HandlerIdle
    /\ kfpExperiments = <<>>
    /\ kfpPipeline = 0
    /\ bpc = "start"
    /\ segments \in Batches
    /\ api_key \in {"", "secret"}
    /\ max_retries \in 0..MaxRetries
    /\ pos = 0
    /\ attempt = 0
    /\ successful_transcriptions = <<>>
    /\ failed_transcriptions = <<>>
    /\ sleeps = <<>>
    /\ attempts = <<>>
    /\ clients = 0
    /\ AssemblyIdle

\* a slip: the client constructed before the mode is chosen
BatchStartClientFirst ==
    /\ bpc = "start"
    /\ pos' = 1
    /\ clients' = clients + 1
    /\ bpc' = IF api_key = "" THEN "stub" ELSE "live"
    /\ UNCHANGED <<segments, api_key, max_retries, attempt,
                   successful_transcriptions, failed_transcriptions,
                   sleeps, attempts>>
    /\ UNCHANGED <<hvars, avars>>

\* lines 157-206: the mode is chosen; live mode constructs the client
BatchStart ==
    /\ bpc = "start"
    /\ pos' = 1
    /\ IF api_key = ""
       THEN /\ bpc' = "stub"
            /\ clients' = clients
       ELSE /\ bpc' = "live"
            /\ clients' = clients + 1
    /\ UNCHANGED <<segments, api_key, max_retries, attempt,
                   successful_transcriptions, failed_transcriptions,
                   sleeps, attempts>>
    /\ UNCHANGED <<hvars, avars>>

\* lines 169-191: one iteration of the stub loop
StubSegment ==
    /\ bpc = "stub"
    /\ pos <= Len(segments)
    /\ successful_transcriptions' =
           Append(successful_transcriptions, StubResult(segments[pos]))
    /\ pos' = pos + 1
    /\ UNCHANGED <<bpc, segments, api_key, max_retries, attempt,
                   failed_transcriptions, sleeps, attempts, clients>>
    /\ UNCHANGED <<hvars, avars>>

\* lines 193-197: return successful_transcriptions, []
StubReturn ==
    /\ bpc = "stub"
    /\ pos > Len(segments)
    /\ bpc' = "done"
    /\ failed_transcriptions' = <<>>
    /\ UNCHANGED <<segments, api_key, max_retries, pos, attempt,
                   successful_transcriptions, sleeps, attempts, clients>>
    /\ UNCHANGED <<hvars, avars>>

\* a slip: line 222 without 'or segment', a None result being dropped
SegmentBeginDropNone ==
    /\ bpc = "live"
    /\ pos <= Len(segments)
    /\ attempt' = 0
    /\ IF max_retries <= 0
       THEN /\ pos' = pos + 1
            /\ bpc' = bpc
            /\ UNCHANGED failed_transcriptions
       ELSE /\ bpc' = "attempt"
            /\ UNCHANGED <<failed_transcriptions, pos>>
    /\ UNCHANGED <<segments, api_key, max_retries,
                   successful_transcriptions, sleeps, attempts, clients>>
    /\ UNCHANGED <<hvars, avars>>

\* lines 211-217 and 74-77: the next segment enters the retry loop; with
\* max_retries = 0 the loop body never runs, transcribe_audio_segment
\* returns None (line 132) and line 222 files the segment itself
SegmentBegin ==
    /\ bpc = "live"
    /\ pos <= Len(segments)
    /\ attempt' = 0
    /\ IF max_retries <= 0
       THEN /\ failed_transcriptions' =
                  Append(failed_transcriptions, segments[pos])
            /\ pos' = pos + 1
            /\ bpc' = bpc
       ELSE /\ bpc' = "attempt"
            /\ UNCHANGED <<failed_transcriptions, pos>>
    /\ UNCHANGED <<segments, api_key, max_retries,
                   successful_transcriptions, sleeps, attempts, clients>>
    /\ UNCHANGED <<hvars, avars>>

\* a slip: the exception of the last attempt re-raised instead of recorded,
\* which ends batch_transcribe_segments without a return value
AttemptRaising(outcome) ==
    /\ bpc = "attempt"
    /\ outcome \in Outcomes(segments[pos])
    /\ attempts' = Append(attempts,
                          [pos |-> pos, attempt |-> attempt, outcome |-> outcome])
    /\ IF outcome = "ok"
       THEN /\ successful_transcriptions' =
                  Append(successful_transcriptions, SuccessResult(segments[pos]))
            /\ pos' = pos + 1
            /\ bpc' = "live"
            /\ UNCHANGED <<attempt, sleeps>>
       ELSE IF AttemptsRemain(attempt)
       THEN /\ sleeps' = Append(sleeps, Backoff(attempt))
            /\ attempt' = attempt + 1
            /\ UNCHANGED <<bpc, pos, successful_transcriptions>>
       ELSE /\ bpc' = "raised"
            /\ UNCHANGED <<attempt, sleeps, pos, successful_transcriptions>>
    /\ UNCHANGED <<segments, api_key, max_retries, clients,
                   failed_transcriptions>>
    /\ UNCHANGED <<hvars, avars>>

\* a slip: a result put at the front of its list
AttemptPrepending(outcome) ==
    /\ bpc = "attempt"
    /\ outcome \in Outcomes(segments[pos])
    /\ attempts' = Append(attempts,
                          [pos |-> pos, attempt |-> attempt, outcome |-> outcome])
    /\ IF outcome = "ok"
       THEN /\ successful_transcriptions' =
                  <<SuccessResult(segments[pos])>> \o successful_transcriptions
            /\ pos' = pos + 1
            /\ bpc' = "live"
            /\ UNCHANGED <<attempt, sleeps, failed_transcriptions>>
       ELSE IF AttemptsRemain(attempt)
       THEN /\ sleeps' = Append(sleeps, Backoff(attempt))
            /\ attempt' = attempt + 1
            /\ UNCHANGED <<bpc, pos, successful_transcriptions,
                           failed_transcriptions>>
       ELSE /\ failed_transcriptions' =
                  <<FailureResult(segments[pos], outcome)>>
                      \o failed_transcriptions
            /\ pos' = pos + 1
            /\ bpc' = "live"
            /\ UNCHANGED <<attempt, sleeps, successful_transcriptions>>
    /\ UNCHANGED <<segments, api_key, max_retries, clients>>
    /\ UNCHANGED <<hvars, avars>>

\* lines 78-130 and 219-222: one attempt on the current segment
Attempt(outcome) ==
    /\ bpc = "attempt"
    /\ outcome \in Outcomes(segments[pos])
    /\ attempts' = Append(attempts,
                          [pos |-> pos, attempt |-> attempt, outcome |-> outcome])
    /\ IF outcome = "ok"
       THEN /\ successful_transcriptions' =
                  Append(successful_transcriptions, SuccessResult(segments[pos]))
            /\ pos' = pos + 1
            /\ bpc' = "live"
            /\ UNCHANGED <<attempt, sleeps, failed_transcriptions>>
       ELSE IF AttemptsRemain(attempt)
       THEN /\ sleeps' = Append(sleeps, Backoff(attempt))
            /\ attempt' = attempt + 1
            /\ UNCHANGED <<bpc, pos, successful_transcriptions,
                           failed_transcriptions>>
       ELSE /\ failed_transcriptions' =
                  Append(failed_transcriptions,
                         FailureResult(segments[pos], outcome))
            /\ pos' = pos + 1
            /\ bpc' = "live"
            /\ UNCHANGED <<attempt, sleeps, successful_transcriptions>>
    /\ UNCHANGED <<segments, api_key, max_retries, clients>>
    /\ UNCHANGED <<hvars, avars>>

\* lines 224-230
LiveReturn ==
    /\ bpc = "live"
    /\ pos > Len(segments)
    /\ bpc' = "done"
    /\ UNCHANGED <<segments, api_key, max_retries, pos, attempt,
                   successful_transcriptions, failed_transcriptions,
                   sleeps, attempts, clients>>
    /\ UNCHANGED <<hvars, avars>>

NextBatch ==
    \/ BatchStart
    \/ StubSegment
    \/ StubReturn
    \/ SegmentBegin
    \/ \E o \in {"ok", "api", "nofile"} : Attempt(o)
    \/ LiveReturn

SpecBatch == InitBatch /\ [][NextBatch]_vars

\* every step of the batch is a step of one thread that keeps running
SpecBatchFair == SpecBatch /\ WF_vars(NextBatch)


(***************************************************************************)
(* Properties of the batch engine.                                         *)
(***************************************************************************)
SegmentIds == { g.segment_id : g \in SegmentPool }

CountId(seq, id) ==
    Cardinality({ i \in 1..Len(seq) : seq[i].segment_id = id })

\* the attempts made on the segment at position k
AttemptsAt(k) == { i \in 1..Len(attempts) : attempts[i].pos = k }

FailedAt(k) ==
    { i \in AttemptsAt(k) : attempts[i].outcome # "ok" }

RECURSIVE SumSeq(_)
SumSeq(q) == IF q = <<>> THEN 0 ELSE q[1] + SumSeq(Tail(q))

Live == api_key # ""

\* segments finalised so far
Finalised == IF bpc \in {"stub", "live", "attempt", "done"} THEN pos - 1 ELSE 0

\* C6: successes and failures partition the batch: while it runs they hold
\* the segments finalised so far, and on return len(successes) +
\* len(failures) = N with every segment id filed as often as it was given,
\* for every max_retries from 0 up and every sequence of outcomes.
C6_Partition ==
    /\ Len(successful_transcriptions) + Len(failed_transcriptions) = Finalised
    /\ bpc = "done" =>
         /\ Len(successful_transcriptions) + Len(failed_transcriptions)
              = Len(segments)
         /\ \A id \in SegmentIds :
              CountId(successful_transcriptions, id)
                + CountId(failed_transcriptions, id) = CountId(segments, id)

\* a live batch of three returned with both partitions non-empty
C6_Witness ==
    /\ bpc = "done"
    /\ Live
    /\ Len(segments) = 3
    /\ Len(successful_transcriptions) >= 1
    /\ Len(failed_transcriptions) >= 1

\* C7: with an empty credential no client is constructed and no attempt
\* (hence no inference call, no sleep) is made; the call returns one
\* successful result per segment, in input order, and no failure.
C7_StubMode ==
    ~Live =>
        /\ clients = 0
        /\ attempts = <<>>
        /\ sleeps = <<>>
        /\ failed_transcriptions = <<>>
        /\ \A i \in 1..Len(successful_transcriptions) :
             /\ successful_transcriptions[i].success
             /\ i <= Len(segments)
             /\ successful_transcriptions[i].segment_id = segments[i].segment_id
             /\ successful_transcriptions[i].start_time = segments[i].start_time
        /\ bpc = "done" => Len(successful_transcriptions) = Len(segments)

\* a stub batch of three, one of them with a missing file, returned
C7_Witness ==
    /\ bpc = "done"
    /\ ~Live
    /\ Len(segments) = 3
    /\ \E i \in 1..3 : segments[i].path \in MissingFiles
    /\ Len(successful_transcriptions) = 3

\* the failed attempts that were followed by a retry, in order
RetriedFailures ==
    SelectSeq(attempts,
              LAMBDA a : a.outcome # "ok" /\ a.attempt + 1 < max_retries)

OneFailsOthersFirstTry(kf) ==
    /\ bpc = "done"
    /\ Live
    /\ max_retries >= 1
    /\ kf \in 1..Len(segments)
    /\ Cardinality(FailedAt(kf)) = max_retries
    /\ \A k \in 1..Len(segments) :
         k # kf => /\ Cardinality(AttemptsAt(k)) = 1
                   /\ FailedAt(k) = {}

RECURSIVE SumBackoff(_)
\* retry_delay * 1 + ... + retry_delay * n
SumBackoff(n) == IF n <= 0 THEN 0 ELSE retry_delay * n + SumBackoff(n - 1)

Without(seq, k) == SubSeq(seq, 1, k - 1) \o SubSeq(seq, k + 1, Len(seq))

PartitionsOf(kf) ==
    /\ Len(successful_transcriptions) = Len(segments) - 1
    /\ \A i \in 1..Len(successful_transcriptions) :
         /\ successful_transcriptions[i].segment_id
              = Without(segments, kf)[i].segment_id
         /\ successful_transcriptions[i].success
    /\ Len(failed_transcriptions) = 1
    /\ failed_transcriptions[1].segment_id = segments[kf].segment_id
    /\ ~failed_transcriptions[1].success
    /\ failed_transcriptions[1].error # <<>>

\* C9 as stated: in that scenario the partitions are as described and the
\* time slept is retry_delay * (i + 1) summed over every failed attempt
\* index i in 0..max_retries-1.
C9_AsStated ==
    \A kf \in 1..MaxSegs + 1 :
        OneFailsOthersFirstTry(kf) =>
            /\ PartitionsOf(kf)
            /\ SumSeq(sleeps) = SumBackoff(max_retries)

\* C9 amended: the time slept is retry_delay * (i + 1) summed over the
\* failed attempts that are followed by a retry, i in 0..max_retries-2
\* (retry_delay * 1 for max_retries = 2).
C9_SleepTotal ==
    \A kf \in 1..MaxSegs + 1 :
        OneFailsOthersFirstTry(kf) =>
            /\ PartitionsOf(kf)
            /\ SumSeq(sleeps) = SumBackoff(max_retries - 1)
            /\ max_retries = 2 => sleeps = <<retry_delay>>

\* three segments, the second fails both of its 2 attempts
C9_Witness ==
    /\ OneFailsOthersFirstTry(2)
    /\ Len(segments) = 3
    /\ max_retries = 2
    /\ Len(successful_transcriptions) = 2

AttemptedAfterFailure ==
    \A k \in 1..Len(segments) :
        (\E j \in 1..k - 1 : FailedAt(j) # {}) => AttemptsAt(k) # {}

\* C10: whatever attempts fail, the batch terminates and returns both
\* partitions, and every segment that follows a failed one was attempted.
C10_NeverAborts ==
    /\ <>(bpc = "done")
    /\ [](bpc = "done" =>
            /\ Len(successful_transcriptions) + Len(failed_transcriptions)
                 = Len(segments)
            /\ AttemptedAfterFailure)

\* the first segment (its file missing) failed, the later ones were attempted
C10_Witness ==
    /\ bpc = "done"
    /\ Live
    /\ Len(segments) = 3
    /\ segments[1].path \in MissingFiles
    /\ Cardinality(FailedAt(1)) = max_retries
    /\ max_retries >= 2
    /\ AttemptsAt(2) # {}
    /\ AttemptsAt(3) # {}
    /\ Len(failed_transcriptions) >= 1


(***************************************************************************)
(* Assembling the transcript: create_complete_transcript and               *)
(* create_transcript_metadata of transcription.py.  A text is a sequence   *)
(* of characters, a document a sequence of characters and fixed strings.   *)
(***************************************************************************)
Whitespace == {" ", "\t", "\n"}

\* str.strip() with no argument
LStrip(text) ==
    LET first == { i \in 1..Len(text) : text[i] \notin Whitespace }
    IN IF first = {} THEN <<>>
       ELSE LET a == CHOOSE i \in first : \A j \in first : i <= j
            IN SubSeq(text, a, Len(text))

RStrip(text) ==
    LET last == { i \in 1..Len(text) : text[i] \notin Whitespace }
    IN IF last = {} THEN <<>>
       ELSE LET b == CHOOSE i \in last : \A j \in last : j <= i
            IN SubSeq(text, 1, b)

Strip(text) == RStrip(LStrip(text))

\* len(text.split()): the maximal runs of non-whitespace
WordCount(text) ==
    Cardinality({ i \in 1..Len(text) :
                    /\ text[i] \notin Whitespace
                    /\ (i = 1 \/ text[i - 1] \in Whitespace) })

DigitChar == <<"0", "1", "2", "3", "4", "5", "6", "7", "8", "9">>

\* format(n, 'd') of a natural number
RECURSIVE Decimal(_)
Decimal(n) ==
    IF n < 10 THEN <<DigitChar[n + 1]>>
    ELSE Decimal(n \div 10) \o <<DigitChar[(n % 10) + 1]>>

\* a slip: the width of the field forgotten
ZeroPad2Bare(n) == Decimal(n)

\* format(n, '02d'): zeros on the left up to a width of two
ZeroPad2(n) ==
    LET d == Decimal(n)
    IN IF Len(d) < 2 THEN <<"0">> \o d ELSE d

\* lines 259-265: the timestamp of one result
Timestamp(trans) ==
    LET start_min == trans.start_time \div 60
        start_sec == trans.start_time % 60
        end_min == trans.end_time \div 60
        end_sec == trans.end_time % 60
    IN <<"[">> \o ZeroPad2(start_min) \o <<":">> \o ZeroPad2(start_sec)
       \o <<" ", "-", " ">>
       \o ZeroPad2(end_min) \o <<":">> \o ZeroPad2(end_sec) \o <<"]">>

\* sorted(..., key=segment_id) is stable: insert each element after the
\* elements whose key is not larger
RECURSIVE InsertById(_, _)
InsertById(x, sorted) ==
    IF sorted = <<>> THEN <<x>>
    ELSE IF Head(sorted).segment_id <= x.segment_id
         THEN <<Head(sorted)>> \o InsertById(x, Tail(sorted))
         ELSE <<x>> \o sorted

RECURSIVE SortedFrom(_, _)
SortedFrom(list, sorted) ==
    IF list = <<>> THEN sorted
    ELSE SortedFrom(Tail(list), InsertById(Head(list), sorted))

\* a slip: the list taken in the order given
SortedByIdNot(list) == list

\* line 248
SortedById(list) == SortedFrom(list, <<>>)

\* '\n'.join(lines)
RECURSIVE Join(_)
Join(lines) ==
    IF lines = <<>> THEN <<>>
    ELSE IF Len(lines) = 1 THEN lines[1]
         ELSE lines[1] \o <<"\n">> \o Join(Tail(lines))

\* lines 253-267: the two lines of each result
RECURSIVE BlockLines(_)
BlockLines(sorted) ==
    IF sorted = <<>> THEN <<>>
    ELSE << <<"\n">> \o Timestamp(Head(sorted)), Strip(Head(sorted).text) >>
         \o BlockLines(Tail(sorted))

\* lines 270-276
FooterLines(sorted) ==
    << <<"\n", "\n", "=== END TRANSCRIPT ===">>,
       <<"\n", "Total segments: ">> \o Decimal(Len(sorted)) >>
    \o IF sorted # <<>>
       THEN LET total_duration == sorted[Len(sorted)].end_time
            IN << <<"Total duration: ">> \o Decimal(total_duration \div 60)
                  \o <<":">> \o ZeroPad2(total_duration % 60) >>
       ELSE <<>>

\* lines 250-278, from the sorted list to the document
Render(sorted) ==
    Join(<< <<"=== EARNINGS CALL TRANSCRIPT ===", "\n">> >>
         \o BlockLines(sorted) \o FooterLines(sorted))

\* create_complete_transcript, the returned string
CompleteTranscript(list) == Render(SortedById(list))

\* the arguments of create_transcript_metadata other than the list
audio_file == "call.mp3"

sample_rate == 16000

\* lines 309-321; the quotient is kept as numerator and denominator
TranscriptMetadata(list) ==
    LET total_segments == Len(list)
        total_duration == IF list # <<>> THEN list[Len(list)].end_time ELSE 0
    IN [source_audio |-> audio_file,
        sample_rate |-> sample_rate,
        total_segments |-> total_segments,
        total_duration |-> total_duration,
        total_words |-> SumSeq([i \in 1..Len(list) |-> WordCount(list[i].text)]),
        avg_segment_duration |->
            IF total_segments > 0 THEN <<total_duration, total_segments>>
            ELSE <<0, 1>>,
        segments |-> list]

\* a successful result as the assembly reads it
Transcription(id, text, start, end) ==
    Result(id, text, start, end, end - start, "", TRUE, <<>>)

\* the results a list is drawn from: an id may repeat, and the end times
\* do not grow with the ids
TranscriptionPool ==
    { Transcription(0, <<" ", "h", "i", " ", "a", "l", "l", "\n">>, 0, 75),
      Transcription(1, <<"o", "k">>, 75, 140),
      Transcription(7, <<"b", "y", "e", " ">>, 140, 200),
      Transcription(1, <<" ">>, 3599, 3600) }

TranscriptionLists == UNION { [1..n -> TranscriptionPool] : n \in 0..MaxSegs }

InitAssembly ==
    /\ dispatch = "serial"
    /\ HandlerIdle
    /\ kfpExperiments = <<>>
    /\ kfpPipeline = 0
    /\ BatchIdle
    /\ apc = {}
    /\ transcriptions \in TranscriptionLists
    /\ output_path \in {"", "out/transcript.txt"}
    /\ complete_transcript = <<>>
    /\ written = <<>>
    /\ metadata = <<>>

\* create_complete_transcript (lines 233-290)
CreateCompleteTranscript ==
    /\ apc \in SUBSET {"metadata"}
    /\ apc' = apc \cup {"transcript"}
    /\ complete_transcript' = CompleteTranscript(transcriptions)
    /\ written' = IF output_path # "" THEN complete_transcript' ELSE written
    /\ UNCHANGED <<transcriptions, output_path, metadata>>
    /\ UNCHANGED <<hvars, bvars>>

\* create_transcript_metadata (lines 293-321)
CreateTranscriptMetadata ==
    /\ apc \in SUBSET {"transcript"}
    /\ apc' = apc \cup {"metadata"}
    /\ metadata' = TranscriptMetadata(transcriptions)
    /\ UNCHANGED <<transcriptions, output_path, complete_transcript, written>>
    /\ UNCHANGED <<hvars, bvars>>

NextAssembly ==
    \/ CreateCompleteTranscript
    \/ CreateTranscriptMetadata

SpecAssembly == InitAssembly /\ [][NextAssembly]_vars


(***************************************************************************)
(* Properties of the assembly.                                             *)
(***************************************************************************)
DistinctIds(list) ==
    \A i, j \in 1..Len(list) :
        list[i].segment_id = list[j].segment_id => i = j

\* the orders in which a list can be handed over
Reorderings(list) ==
    { [i \in 1..Len(list) |-> list[f[i]]] :
        f \in { g \in [1..Len(list) -> 1..Len(list)] :
                  \A i, j \in 1..Len(list) : g[i] = g[j] => i = j } }

\* the list in ascending order of segment_id, said without sorting
Ascending(list) ==
    CHOOSE r \in Reorderings(list) :
        \A i \in 1..Len(r) - 1 : r[i].segment_id < r[i + 1].segment_id

LargestId(list) ==
    CHOOSE t \in { list[i] : i \in 1..Len(list) } :
        \A i \in 1..Len(list) : list[i].segment_id <= t.segment_id

Assembled == "transcript" \in apc

\* C11: for results with pairwise distinct segment ids, the document is
\* the same for every order of the input list, its blocks are in ascending
\* order of segment id, and the footer's total duration is the end time of
\* the result with the largest segment id.
C11_OrderIndependent ==
    (Assembled /\ DistinctIds(transcriptions)) =>
        /\ \A r \in Reorderings(transcriptions) :
               CompleteTranscript(r) = complete_transcript
        /\ complete_transcript = Render(Ascending(transcriptions))
        /\ transcriptions # <<>> =>
               LET total == LargestId(transcriptions).end_time
                   line == <<"Total duration: ">> \o Decimal(total \div 60)
                           \o <<":">> \o ZeroPad2(total % 60)
               IN SubSeq(complete_transcript,
                         Len(complete_transcript) - Len(line) + 1,
                         Len(complete_transcript)) = line

\* three results handed over in descending order of id, the largest id not
\* having the largest end time
C11_Witness ==
    /\ Assembled
    /\ DistinctIds(transcriptions)
    /\ Len(transcriptions) = 3
    /\ transcriptions[1].segment_id = 7
    /\ transcriptions[2].segment_id = 1
    /\ transcriptions[2].end_time = 3600
    /\ transcriptions[3].segment_id = 0

TwoDigits(n) == <<DigitChar[(n \div 10) + 1], DigitChar[(n % 10) + 1]>>

\* the position in the document of the block of the k-th sorted result
BlockAt(k) ==
    LET sorted == SortedById(transcriptions)
        before == Render(SubSeq(sorted, 1, k - 1))
        footer == Join(FooterLines(SubSeq(sorted, 1, k - 1)))
    IN Len(before) - Len(footer) + 1

\* C12: each result with natural start and end seconds is rendered with
\* the timestamp [MM:SS - MM:SS], MM the seconds div 60 and SS the seconds
\* mod 60, each of two digits with a leading zero where needed; 75 and 140
\* give [01:15 - 02:20].
C12_TimestampFormat ==
    Assembled =>
        \A k \in 1..Len(transcriptions) :
            LET trans == SortedById(transcriptions)[k]
                stamp == <<"[">> \o TwoDigits(trans.start_time \div 60)
                         \o <<":">> \o TwoDigits(trans.start_time % 60)
                         \o <<" ", "-", " ">>
                         \o TwoDigits(trans.end_time \div 60)
                         \o <<":">> \o TwoDigits(trans.end_time % 60)
                         \o <<"]">>
            IN /\ SubSeq(complete_transcript, BlockAt(k) + 1,
                         BlockAt(k) + Len(stamp)) = stamp
               /\ (trans.start_time = 75 /\ trans.end_time = 140) =>
                      SubSeq(complete_transcript, BlockAt(k) + 1,
                             BlockAt(k) + 15)
                        = <<"[", "0", "1", ":", "1", "5", " ", "-", " ",
                            "0", "2", ":", "2", "0", "]">>

\* the result of 75 to 140 seconds assembled, with one of a single-digit
\* minute and second before it
C12_Witness ==
    /\ Assembled
    /\ Len(transcriptions) = 2
    /\ transcriptions[1].start_time = 75
    /\ transcriptions[1].end_time = 140
    /\ transcriptions[2].start_time = 0


(***************************************************************************)
(* Properties of the handler's outcomes.                                   *)
(***************************************************************************)
\* a payload without data, or one that yields no bucket name or no object
\* key in either shape: a field absent, empty, or not a mapping
Malformed(ev) ==
    /\ ev.valid
    /\ \/ ev.data = "none"
       \/ /\ ev.data = "dict"
          /\ Extract(ev).exc \/ Missing(Extract(ev))

\* C13: a payload that has no data, or lacks a resolvable bucket name or
\* object key (a field absent or not a mapping included), is answered
\* 'ignored' / 200 with a reason, never 'error'.
C13_AsStated ==
    \A p \in Procs :
        (Handling(p) /\ Malformed(req[p])) =>
            /\ pc[p] = "done"
            /\ resp[p].status = "ignored"
            /\ resp[p].http = 200
            /\ resp[p].reason # <<>>

RunIssued(p) == InSeq("POST runs", calls[p])

\* the invocation of trigger_pipeline is over and one of the two ids was
\* not obtained
ResolutionFailed(p) ==
    /\ pc[p] = "done"
    /\ trig[p].called
    /\ experiment_id[p] = 0 \/ pipeline_id[p] = 0

RunsIssued(p) == CallsTo(calls[p], {"POST runs"})

\* both ids were obtained and the invocation is over
Resolved(p) ==
    /\ pc[p] = "done"
    /\ trig[p].called
    /\ experiment_id[p] # 0
    /\ pipeline_id[p] # 0

\* C15: an accepted notification whose resolution succeeds issues exactly
\* one create-run request, under an experiment id and with a pipeline id
\* that a resolution returned; no invocation issues two, a failed
\* submission included.
C15_ExactlyOneRun ==
    /\ \A p \in Procs :
           /\ RunsIssued(p) <= 1
           /\ Resolved(p) => RunsIssued(p) = 1
    /\ \A i \in 1..Len(kfpRuns) :
           /\ InSeq(kfpRuns[i].experiment_id, kfpExperiments)
           /\ \E j \in 1..Len(expLog) :
                  expLog[j] = [expLog[j] EXCEPT !.ok = TRUE,
                                               !.id = kfpRuns[i].experiment_id]
           /\ kfpRuns[i].pipeline_id = kfpPipeline
           /\ \E j \in 1..Len(pipeLog) :
                  pipeLog[j] = [pipeLog[j] EXCEPT !.ok = TRUE,
                                                 !.id = kfpRuns[i].pipeline_id]
    /\ Len(kfpRuns) <= nreq

\* a submission the API refused, answered without a second request
C15_Witness ==
    \E p \in Procs :
        /\ Resolved(p)
        /\ RunsIssued(p) = 1
        /\ resp[p] = KfpFailure("POST", "runs")


(***************************************************************************)
(* Properties of the id cache under the threaded server.                   *)
(***************************************************************************)
\* C16: a cache slot, once it holds an id, keeps that id for the life of
\* the process: no step replaces a non-empty slot by a different value,
\* whatever the interleaving of the invocations.
C16_AsStated ==
    [][/\ cached_experiment_id # 0 =>
              cached_experiment_id' = cached_experiment_id
       /\ cached_pipeline_id # 0 =>
              cached_pipeline_id' = cached_pipeline_id]_vars

CreateIssued(p) == InSeq("POST experiments", calls[p])

\* C17: nothing serialises the first resolutions. A thread whose lookup
\* found no experiment issues its own create call when it moves on,
\* whatever the other threads have done since, so that two create calls
\* for the one display name are issued by two invocations that both found
\* the slot empty.
C17_NoSingleFlight ==
    [][\A p \in Procs :
           (pc[p] = "exp_post" /\ pc'[p] # "exp_post") =>
               calls'[p] = Append(calls[p], "POST experiments")]_vars

\* two invocations in flight, each having issued a create call
C17_Witness ==
    \E p, q \in Procs :
        /\ p # q
        /\ CreateIssued(p)
        /\ CreateIssued(q)
        /\ Len(kfpExperiments) = 2


(***************************************************************************)
(* The order of the acceptance rules.                                      *)
(***************************************************************************)
RuleOrder == <<"bucket", "prefix", "extension">>

\* the rules a notification violates (§4.1, rules 3 to 5)
Violates(ev, rule) ==
    LET key == Unquote(RawKey(ev))
    IN CASE rule = "bucket" -> RawBucket(ev) # "audio-inbox"
         [] rule = "prefix" -> StartsWith(Lower(key), ArtifactPrefix)
         [] rule = "extension" ->
                \A ext \in audio_extensions : ~EndsWith(Lower(key), ext)

ReasonOf(ev, rule) ==
    CASE rule = "bucket" -> <<"bucket ", RawBucket(ev), " not monitored">>
      [] rule = "prefix" -> <<"transcript artifacts are not ingested">>
      [] rule = "extension" -> <<"not an audio file">>

\* C18: the acceptance rules are checked in the order bucket, prefix,
\* extension, each with a reason of its own: a notification that violates
\* several rules is ignored with the reason of the first rule it violates.
C18_FirstViolatedRule ==
    \A p \in Procs :
        (Handling(p) /\ Normalized(req[p])) =>
            \A i \in 1..3 :
                ( /\ Violates(req[p], RuleOrder[i])
                  /\ \A j \in 1..(i - 1) : ~Violates(req[p], RuleOrder[j]) )
                => /\ resp[p] = Ignored(ReasonOf(req[p], RuleOrder[i]))
                   /\ \A j \in 1..3 :
                          j # i => ReasonOf(req[p], RuleOrder[j]) # resp[p].reason

\* a text file under 'transcripts/' in the inbox: the prefix rule and the
\* extension rule are both violated
C18_Witness ==
    \E p \in Procs :
        /\ Handling(p)
        /\ Normalized(req[p])
        /\ ~Violates(req[p], "bucket")
        /\ Violates(req[p], "prefix")
        /\ Violates(req[p], "extension")
        /\ resp[p].reason = <<"transcript artifacts are not ingested">>


(***************************************************************************)
(* The pipeline is looked up, never registered.                            *)
(***************************************************************************)
\* the outbound calls the handler knows
KnownCalls ==
    {"GET experiments", "POST experiments", "GET pipelines", "POST runs"}

PipelineAsked(p) == InSeq("GET pipelines", calls[p])

\* C19: the pipeline resolution issues the list call and no other; when no
\* pipeline of the wanted name is registered the resolution fails, the
\* trigger fails, the slot stays empty, and every later resolution asks
\* the API again.
C19_PipelineNeverCreated ==
    /\ \A p \in Procs :
           /\ \A i \in 1..Len(calls[p]) : calls[p][i] \in KnownCalls
           /\ CallsTo(calls[p], PipelineCalls) <= 1
    /\ \A i \in 1..Len(pipeLog) : pipeLog[i].calls <= 1
    /\ kfpPipeline = 0 =>
           /\ cached_pipeline_id = 0
           /\ \A i \in 1..Len(pipeLog) : pipeLog[i] = Resolution(FALSE, 0, 1)
           /\ kfpRuns = <<>>
           /\ \A p \in Procs :
                  (pc[p] = "done" /\ PipelineAsked(p)) =>
                      /\ resp[p].status = "error"
                      /\ resp[p].http = 500
                      /\ ~RunIssued(p)

\* no pipeline registered: two resolutions, each of which asked the API
C19_Witness ==
    /\ kfpPipeline = 0
    /\ Len(pipeLog) = 2
    /\ pipeLog[1] = Resolution(FALSE, 0, 1)
    /\ pipeLog[2] = Resolution(FALSE, 0, 1)
    /\ cached_pipeline_id = 0


(***************************************************************************)
(* The outcome of a run submission the API accepted.                       *)
(***************************************************************************)
\* the answers of the create-run call with a status below 400
AcceptedAnswers == {"ok", "noid", "empty"}

\* C20: 'error' / 500 is answered only when a resolution or the run
\* submission call failed: whenever the create-run call returns a status
\* below 400, whatever its body (empty or not JSON included), the outcome
\* is 'success' / 200.
C20_AsStated ==
    [][\A p \in Procs, a \in AcceptedAnswers :
           RunPost(p, a) =>
               /\ resp'[p].status = "success"
               /\ resp'[p].http = 200]_vars


(***************************************************************************)
(* Which part of the payload decides.                                      *)
(***************************************************************************)
HasRecords(ev) == ev.valid /\ ev.data = "dict" /\ ev.Records # <<>>

\* what the thread did with its notification is what the filter makes of ev
SameOutcome(p, ev) ==
    LET f == Filter(ev)
    IN /\ f.go = trig[p].called
       /\ f.go => TriggeredWith(p, f.bucket, f.key)
       /\ ~f.go => (pc[p] = "done" /\ resp[p] = f.resp)

\* C21: with a non-empty records list the outcome and the trigger
\* arguments depend on the first record alone: every payload with the same
\* first record, whatever its later records and its top-level bucket and
\* object fields, is treated as the payload being handled is.
C21_FirstRecordDecides ==
    \A p \in Procs :
        (Handling(p) /\ HasRecords(req[p])) =>
            \A ev \in RecordEvents \cup WrappedEvents :
                ev.Records[1] = req[p].Records[1] => SameOutcome(p, ev)

\* first record from a foreign bucket, second record and top-level fields
\* from the inbox: ignored for the bucket
C21_Witness ==
    \E p \in Procs :
        /\ Handling(p)
        /\ HasRecords(req[p])
        /\ Len(req[p].Records) = 2
        /\ req[p].Records[1].bucket = With("other-bucket")
        /\ req[p].Records[2].bucket = With("audio-inbox")
        /\ req[p].bucket = With("audio-inbox")
        /\ resp[p].status = "ignored"
        /\ ~trig[p].called


(***************************************************************************)
(* The entries of the two partitions.                                      *)
(***************************************************************************)
\* entry is a failure result of one of the segments given
FailureOf(entry) ==
    /\ {"success", "error", "text"} \subseteq DOMAIN entry
    /\ ~entry.success
    /\ entry.error # <<>>
    /\ \E k \in 1..Len(segments) :
           /\ entry.segment_id = segments[k].segment_id
           /\ entry.start_time = segments[k].start_time
           /\ entry.end_time = segments[k].end_time
           /\ entry.duration = segments[k].duration

\* C22: every entry of the failures is a failure result of one input
\* segment, with success = false, the message of an error and the
\* segment's id, start, end and duration; every entry of the successes
\* has success = true and no error; for every max_retries, 0 included.
C22_AsStated ==
    /\ \A i \in 1..Len(failed_transcriptions) :
           FailureOf(failed_transcriptions[i])
    /\ \A i \in 1..Len(successful_transcriptions) :
           /\ successful_transcriptions[i].success
           /\ successful_transcriptions[i].error = <<>>


(***************************************************************************)
(* The placeholder text of the stub mode.                                  *)
(***************************************************************************)
UniqueIds ==
    \A i, j \in 1..Len(segments) :
        segments[i].segment_id = segments[j].segment_id => i = j

\* C23: in stub mode, for unique segment ids that need not be contiguous
\* or start at zero, the placeholder text of the segment at 1-based
\* position k embeds the index k and that segment's file name.
C23_AsStated ==
    (~Live /\ UniqueIds) =>
        \A k \in 1..Len(successful_transcriptions) :
            /\ successful_transcriptions[k].text.kind = "demo"
            /\ successful_transcriptions[k].text.index = k
            /\ segments[k].filename # "" =>
                   successful_transcriptions[k].text.file = segments[k].filename


(***************************************************************************)
(* The order of the work in live mode.                                     *)
(***************************************************************************)
\* the positions whose segment was transcribed
OkPositions ==
    { k \in 1..Len(segments) : \E i \in AttemptsAt(k) : attempts[i].outcome = "ok" }

\* the positions filed as failed so far
FailedPositions == (1..Finalised) \ OkPositions

\* the i-th smallest element of a set of numbers
Nth(S, i) == CHOOSE k \in S : Cardinality({ j \in S : j < k }) = i - 1

\* the attempt at index i of the log settled its segment
Settles(i) ==
    \/ attempts[i].outcome = "ok"
    \/ attempts[i].attempt = max_retries - 1

InInputOrder(partition, positions) ==
    /\ Len(partition) = Cardinality(positions)
    /\ \A i \in 1..Len(partition) :
           /\ partition[i].segment_id = segments[Nth(positions, i)].segment_id
           /\ partition[i].start_time = segments[Nth(positions, i)].start_time

\* C24: in live mode the segments are processed one after the other in
\* input order: an attempt on a position is made only after every earlier
\* position was settled by a success or by its last attempt, only the
\* current position is under attempt, and each partition lists its
\* results in input order.
C24_Sequential ==
    Live =>
        /\ \A i \in 1..Len(attempts) :
               /\ attempts[i].pos <= pos
               /\ \A k \in 1..(attempts[i].pos - 1) :
                      \E j \in 1..(i - 1) : attempts[j].pos = k /\ Settles(j)
               /\ Settles(i) => (i = Len(attempts) \/ attempts[i + 1].pos > attempts[i].pos)
        /\ bpc = "attempt" =>
               /\ pos \in 1..Len(segments)
               /\ Cardinality(AttemptsAt(pos)) = attempt
               /\ \A i \in AttemptsAt(pos) : ~Settles(i)
        /\ InInputOrder(successful_transcriptions, OkPositions)
        /\ InInputOrder(failed_transcriptions, FailedPositions)

\* three segments, the second one failed after retries, the first and the
\* third transcribed
C24_Witness ==
    /\ Live
    /\ bpc = "done"
    /\ max_retries >= 2
    /\ Len(segments) = 3
    /\ OkPositions = {1, 3}
    /\ segments[1].segment_id > segments[3].segment_id
    /\ Len(successful_transcriptions) = 2
    /\ Len(failed_transcriptions) = 1


(***************************************************************************)
(* The metadata record next to the document.                               *)
(***************************************************************************)
Summarised == "metadata" \in apc

\* the last line of the document reports these seconds as its total
FooterReports(seconds) ==
    LET line == <<"Total duration: ">> \o Decimal(seconds \div 60)
                \o <<":">> \o ZeroPad2(seconds % 60)
    IN /\ Len(complete_transcript) >= Len(line)
       /\ SubSeq(complete_transcript,
                 Len(complete_transcript) - Len(line) + 1,
                 Len(complete_transcript)) = line

\* C25: for results with distinct segment ids the metadata record has the
\* same total duration and the same average segment duration for every
\* order of the list, and its total duration is the one the footer of the
\* document reports, the end time of the result with the largest id.
C25_AsStated ==
    (Summarised /\ DistinctIds(transcriptions) /\ transcriptions # <<>>) =>
        /\ \A r \in Reorderings(transcriptions) :
               /\ TranscriptMetadata(r).total_duration = metadata.total_duration
               /\ TranscriptMetadata(r).avg_segment_duration
                    = metadata.avg_segment_duration
        /\ metadata.total_duration = LargestId(transcriptions).end_time
        /\ Assembled => FooterReports(metadata.total_duration)

=============================================================================
